---- MODULE Spec2Model ----
(***************************************************************************)
(* A model of radarr-mvp's import tooling:                                 *)
(*   - src/test_import_unit.py: the unit-test runner of the import         *)
(*     endpoint (response format, request parsing, year extraction);       *)
(*   - src/scripts/import_analysis_to_postgres.py: AnalysisImporter and    *)
(*     its command-line main().                                            *)
(* Three specifications share the module: SpecUnit (the unit tests and the *)
(* import executor they stand for), Spec (any sequence of calls on one     *)
(* AnalysisImporter) and SpecMain (runs of main()).                        *)
(***************************************************************************)
EXTENDS Integers, Sequences, FiniteSets, TLC

VARIABLES
    \* ---- src/test_import_unit.py ----
    tpc,          \* position of main()'s loop over the tests
    passed,       \* main(): passed
    failed,       \* main(): failed
    exc,          \* exception raised by the step just taken ("None" when none)
    response,     \* the response the last step produced or expected
    request,      \* test_request_validation: the request being parsed
    parsed,       \* test_request_validation: path, output_path, dry_run
    cases_left,   \* test_file_naming_logic: test cases still to run
    original,     \* test_file_naming_logic: original (a sequence of characters)
    parts,        \* test_file_naming_logic: parts
    year,         \* test_file_naming_logic: year (None or a token)
    printed,      \* test_file_naming_logic: line 130 was reached for this case
    plan,         \* import executor: the plan entries still to execute
    stats,        \* import executor: the ImportStats accumulator
    importedFiles,\* import executor: per-file outcomes so far
    run,          \* import executor: the request of the run in progress
    test_exit,    \* main(): the status the test run returned (-1: none yet)
    \* ---- src/scripts/import_analysis_to_postgres.py ----
    conn,         \* self.conn: "None", "open", or "closed" (after close())
    session_id,   \* self.session_id (0 is None)
    lost,         \* the server side of the connection is gone
    aborted,      \* the connection's transaction is in the failed state
    db,           \* the committed rows of the database's tables
    seqs,         \* the last value of each id sequence (never rolled back)
    pc,           \* position inside import_json_file / import_csv_file
    data,         \* import_json_file: the file given; import_csv_file too
    todo,         \* the scene groups (JSON) or rows (CSV) still to import
    rels,         \* import_json_file: releases of the group still to import
    group_id,     \* import_json_file: group_id
    total_groups, \* import_json_file: total_groups
    trace,        \* the calls the running import has made, with results
    ret,          \* what the last import_json_file / import_csv_file did
    calls,        \* number of calls made on the importer so far
    \* ---- main() of import_analysis_to_postgres.py ----
    mpc,          \* position of main()
    args,         \* args.input_file's type and args.show_top
    success,      \* main(): success
    escaped,      \* an exception is leaving main()'s try block
    exit_status,  \* the process's exit status (-1 while it runs)
    disconnects,  \* calls of importer.disconnect() in this run
    imports,      \* calls of import_json_file / import_csv_file in this run
    runs          \* number of runs of main() so far

unitVars == <<tpc, passed, failed, exc, response, request, parsed,
              cases_left, original, parts, year, printed, plan, stats,
              importedFiles, run, test_exit>>

worldVars == <<conn, session_id, lost, aborted, db, seqs>>
importVars == <<pc, data, todo, rels, group_id, total_groups, trace, ret>>

mainVars == <<mpc, args, success, escaped, exit_status, disconnects, imports,
              runs>>

vars == <<unitVars, worldVars, importVars, calls, mainVars>>

\* Python's None, for a value that is a sequence when present; an optional
\* record r is <<>> when absent and <<r>> when present.
None == <<>>

(***************************************************************************)
(* Bounds of the model.                                                    *)
(***************************************************************************)
\* Longest filename, in tokens, that test_file_naming_logic is given.
MaxTokens == 2
\* Most test cases in test_file_naming_logic's list.
MaxCases == 2
\* Most files one import run discovers.
MaxFiles == 2
\* Most scene groups in one JSON file, and most rows in one CSV file.
MaxGroups == 2
\* Most releases listed under one scene group.
MaxReleases == 1
\* Most calls made on one AnalysisImporter (Spec).
MaxCalls == 2
\* Most calls made on one AnalysisImporter that is used for several
\* imports (SpecReuse).
MaxReuseCalls == 3
\* Most runs of main() against one database (SpecMain).
MaxRuns == 1

(***************************************************************************)
(* test_file_naming_logic: year extraction.                                *)
(***************************************************************************)
Digits == {"0", "1", "2", "9"}

\* str.replace(".", " ")
replace_dots(s) == [i \in 1..Len(s) |-> IF s[i] = "." THEN " " ELSE s[i]]

\* str.split(): the maximal runs of non-blank characters, in order.
RECURSIVE split_from(_, _, _)
split_from(s, i, cur) ==
    IF i > Len(s)
    THEN IF cur = <<>> THEN <<>> ELSE <<cur>>
    ELSE IF s[i] = " "
         THEN IF cur = <<>> THEN split_from(s, i + 1, <<>>)
              ELSE <<cur>> \o split_from(s, i + 1, <<>>)
         ELSE split_from(s, i + 1, Append(cur, s[i]))

split(s) == split_from(s, 1, <<>>)

\* line 118
tokenize(name) == split(replace_dots(name))

\* str.isdigit(): non-empty and every character a digit.
isdigit(part) == Len(part) > 0 /\ \A i \in 1..Len(part) : part[i] \in Digits

\* str.startswith(("19", "20"))
startswith_19_20(part) ==
    /\ Len(part) >= 2
    /\ SubSeq(part, 1, 2) \in {<<"1", "9">>, <<"2", "0">>}

\* line 123
is_year(part) == isdigit(part) /\ Len(part) = 4 /\ startswith_19_20(part)

\* A plausible slip in find_year: the loop without its break, so that a later
\* match replaces an earlier one.
RECURSIVE find_year_last(_)
find_year_last(ps) ==
    IF ps = <<>> THEN None
    ELSE LET later == find_year_last(Tail(ps))
         IN  IF later # None THEN later
             ELSE IF is_year(Head(ps)) THEN Head(ps) ELSE None

\* lines 121-125: the first matching part, the loop breaking there.
RECURSIVE find_year(_)
find_year(ps) ==
    IF ps = <<>> THEN None
    ELSE IF is_year(Head(ps)) THEN Head(ps)
    ELSE find_year(Tail(ps))

\* The tokens filenames are built from.
Vocabulary ==
    { <<"F", "c">>,                      \* a title word
      <<"1", "9", "9", "9">>,            \* 1999
      <<"2", "0", "1", "0">>,            \* 2010
      <<"2", "1", "9", "0">>,            \* four digits, not 19xx or 20xx
      <<"2", "0", "0", "1", "2">>,       \* five digits
      <<"1", "9", "9", "0", "p">>,       \* digits and a letter
      <<"2", "0", "0", "9", "_", "x">> } \* joined by an underscore

RECURSIVE join_dots(_)
join_dots(ts) ==
    IF ts = <<>> THEN <<>>
    ELSE IF Len(ts) = 1 THEN Head(ts)
    ELSE Head(ts) \o <<".">> \o join_dots(Tail(ts))

\* A filename is never empty.
TokenLists == UNION { [1..n -> Vocabulary] : n \in 1..MaxTokens }

Filenames == { join_dots(ts) : ts \in TokenLists }

(***************************************************************************)
(* test_request_validation: request parsing.                               *)
(***************************************************************************)
\* dict.get(key, default)
get(d, key, default) == IF key \in DOMAIN d THEN d[key] ELSE default

\* A plausible slip in parse_request: `d.get(key) or default`, which also
\* replaces a present but falsy value by the default.
parse_request_or(req) ==
    [ path        |-> IF get(req, "path", "") = "" THEN "/downloads"
                      ELSE req["path"],
      output_path |-> IF get(req, "outputPath", "") = "" THEN "/movies"
                      ELSE req["outputPath"],
      dry_run     |-> IF get(req, "dryRun", FALSE) = FALSE THEN TRUE
                      ELSE req["dryRun"] ]

\* lines 72-74 (and 82-84)
parse_request(req) ==
    [ path        |-> get(req, "path", "/downloads"),
      output_path |-> get(req, "outputPath", "/movies"),
      dry_run     |-> get(req, "dryRun", TRUE) ]

\* line 81
empty_request == [k \in {} |-> ""]

PathValues == {"/data", ""}

\* A request holding the fields whose flag is set.
make_request(hasP, p, hasO, o, hasD, d) ==
    [k \in ((IF hasP THEN {"path"} ELSE {}) \cup
            (IF hasO THEN {"outputPath"} ELSE {}) \cup
            (IF hasD THEN {"dryRun"} ELSE {})) |->
        CASE k = "path" -> p
          [] k = "outputPath" -> o
          [] k = "dryRun" -> d]

Requests ==
    { make_request(hasP, p, hasO, o, hasD, d) :
        hasP \in BOOLEAN, p \in PathValues,
        hasO \in BOOLEAN, o \in PathValues,
        hasD \in BOOLEAN, d \in BOOLEAN }

(***************************************************************************)
(* test_import_response_format: the response the endpoint should return.   *)
(***************************************************************************)
\* A plausible slip in mock_response: the file counted as scanned but in no
\* outcome counter.
mock_response_uncounted ==
    [ success |-> TRUE,
      message |-> "Import completed successfully (MVP simulation)",
      stats |-> [ filesScanned |-> 1, filesAnalyzed |-> 1,
                  successfulImports |-> 0, failedImports |-> 0,
                  skippedFiles |-> 0, totalSize |-> 1500000000,
                  totalDurationMs |-> 1200, hardlinksCreated |-> 1,
                  filesCopied |-> 0 ],
      dryRun |-> TRUE,
      sourcePath |-> "/downloads",
      destinationPath |-> "/movies",
      importedFiles |-> <<
        [ originalPath |-> "/downloads/Fight.Club.1999.1080p.BluRay.x264-SPARKS.mkv",
          newPath |-> "/movies/Fight Club (1999)/Fight Club (1999) Bluray-1080p.mkv",
          size |-> 1500000000,
          quality |-> "Bluray-1080p",
          hardlinked |-> FALSE ] >> ]

\* lines 14-40
mock_response ==
    [ success |-> TRUE,
      message |-> "Import completed successfully (MVP simulation)",
      stats |-> [ filesScanned |-> 1, filesAnalyzed |-> 1,
                  successfulImports |-> 1, failedImports |-> 0,
                  skippedFiles |-> 0, totalSize |-> 1500000000,
                  totalDurationMs |-> 1200, hardlinksCreated |-> 1,
                  filesCopied |-> 0 ],
      dryRun |-> TRUE,
      sourcePath |-> "/downloads",
      destinationPath |-> "/movies",
      importedFiles |-> <<
        [ originalPath |-> "/downloads/Fight.Club.1999.1080p.BluRay.x264-SPARKS.mkv",
          newPath |-> "/movies/Fight Club (1999)/Fight Club (1999) Bluray-1080p.mkv",
          size |-> 1500000000,
          quality |-> "Bluray-1080p",
          hardlinked |-> FALSE ] >> ]

\* line 43
required_fields ==
    {"success", "message", "stats", "dryRun", "sourcePath", "destinationPath"}
\* line 48
required_stats ==
    {"filesScanned", "successfulImports", "failedImports", "totalSize"}
\* line 54
file_fields == {"originalPath", "newPath", "size", "quality"}

\* lines 42-56: the assertions of test_import_response_format.
response_format_ok(r) ==
    /\ required_fields \subseteq DOMAIN r
    /\ required_stats \subseteq DOMAIN r.stats
    /\ (r.importedFiles # <<>> => file_fields \subseteq DOMAIN r.importedFiles[1])

ZeroStats ==
    [ filesScanned |-> 0, filesAnalyzed |-> 0, successfulImports |-> 0,
      failedImports |-> 0, skippedFiles |-> 0, totalSize |-> 0,
      totalDurationMs |-> 0, hardlinksCreated |-> 0, filesCopied |-> 0 ]

\* The locals of the test functions and of an import run, all unset.
UnitLocalsUnset ==
    /\ request = None /\ parsed = None /\ cases_left = 0 /\ original = None
    /\ parts = <<>> /\ year = None /\ printed = FALSE /\ plan = <<>>
    /\ stats = ZeroStats /\ importedFiles = <<>> /\ run = None

InitUnit ==
    /\ tpc = "idle" /\ passed = 0 /\ failed = 0 /\ exc = "None"
    /\ response = None /\ test_exit = -1
    /\ UnitLocalsUnset

\* The locals of the test functions and of an import run are left alone.
KeepNaming == UNCHANGED <<cases_left, original, parts, year, printed>>
KeepRequest == UNCHANGED <<request, parsed>>
KeepExecutor ==
    UNCHANGED <<plan, stats, importedFiles, run, worldVars, importVars, calls,
                mainVars>>

\* lines 164-178: main() starts its loop over the tests.
RunTests ==
    /\ tpc = "idle"
    /\ tpc' = "test_import_response_format"
    /\ passed' = 0 /\ failed' = 0 /\ exc' = "None" /\ response' = None
    /\ test_exit' = -1
    /\ KeepNaming /\ KeepRequest /\ KeepExecutor

\* lines 10-59, and main()'s lines 181-189 around the call.
test_import_response_format ==
    /\ tpc = "test_import_response_format"
    /\ response' = <<mock_response>>
    /\ IF response_format_ok(mock_response)
       THEN exc' = "None" /\ passed' = passed + 1 /\ failed' = failed
       ELSE exc' = "AssertionError" /\ failed' = failed + 1 /\ passed' = passed
    /\ tpc' = "test_request_validation"
    /\ UNCHANGED test_exit
    /\ KeepNaming /\ KeepRequest /\ KeepExecutor

\* lines 76-78 (and 86-88)
request_asserts_ok(p) ==
    p.path = "/downloads" /\ p.output_path = "/movies" /\ p.dry_run = TRUE

\* lines 61-78: the first request of test_request_validation, here any
\* request; a failed assertion ends the test (main()'s lines 186-189).
test_request_validation_valid ==
    /\ tpc = "test_request_validation"
    /\ \E valid_request \in Requests :
        /\ request' = <<valid_request>>
        /\ parsed' = <<parse_request(valid_request)>>
        /\ IF request_asserts_ok(parse_request(valid_request))
           THEN /\ exc' = "None" /\ tpc' = "test_request_validation_defaults"
                /\ UNCHANGED <<passed, failed>>
           ELSE /\ exc' = "AssertionError" /\ failed' = failed + 1
                /\ passed' = passed
                /\ tpc' = "test_file_naming_logic"
    /\ response' = None
    /\ UNCHANGED test_exit
    /\ KeepNaming /\ KeepExecutor

\* lines 80-91: the defaults of test_request_validation.
test_request_validation_defaults ==
    /\ tpc = "test_request_validation_defaults"
    /\ request' = <<empty_request>>
    /\ parsed' = <<parse_request(empty_request)>>
    /\ IF request_asserts_ok(parse_request(empty_request))
       THEN exc' = "None" /\ passed' = passed + 1 /\ failed' = failed
       ELSE exc' = "AssertionError" /\ failed' = failed + 1 /\ passed' = passed
    /\ tpc' = "test_file_naming_logic"
    /\ UNCHANGED <<response, test_exit>>
    /\ KeepNaming /\ KeepExecutor

\* lines 93-113: test_file_naming_logic starts on its list of test cases,
\* here a list of any length up to MaxCases.
test_file_naming_logic_start ==
    /\ tpc = "test_file_naming_logic"
    /\ \E n \in 0..MaxCases : cases_left' = n
    /\ tpc' = "test_file_naming_logic_loop"
    /\ exc' = "None"
    /\ request' = None /\ parsed' = None
    /\ UNCHANGED <<original, parts, year, printed>>
    /\ UNCHANGED <<passed, failed, response, test_exit>>
    /\ KeepExecutor

\* lines 113-130: one case of the loop, here any filename. The assertion of
\* line 128 ends the test when no year was found (main()'s lines 186-189).
test_file_naming_logic_case ==
    /\ tpc = "test_file_naming_logic_loop"
    /\ cases_left > 0
    /\ \E name \in Filenames :
        /\ original' = name
        /\ parts' = tokenize(name)
        /\ year' = find_year(tokenize(name))
    /\ cases_left' = cases_left - 1
    /\ IF year' # None
       THEN /\ printed' = TRUE /\ exc' = "None"
            /\ UNCHANGED <<tpc, passed, failed>>
       ELSE /\ printed' = FALSE /\ exc' = "AssertionError"
            /\ failed' = failed + 1 /\ passed' = passed
            /\ tpc' = "test_import_workflow_simulation"
    /\ UNCHANGED <<response, test_exit>>
    /\ KeepRequest /\ KeepExecutor

\* line 132: the loop is over and the test returns True.
test_file_naming_logic_return ==
    /\ tpc = "test_file_naming_logic_loop"
    /\ cases_left = 0
    /\ exc' = "None" /\ passed' = passed + 1 /\ failed' = failed
    /\ tpc' = "test_import_workflow_simulation"
    /\ UNCHANGED <<response, test_exit>>
    /\ KeepNaming /\ KeepRequest /\ KeepExecutor

\* line 157
expected_duration_ms == 1200

\* lines 134-162
test_import_workflow_simulation ==
    /\ tpc = "test_import_workflow_simulation"
    /\ IF expected_duration_ms > 0 /\ expected_duration_ms < 5000
       THEN exc' = "None" /\ passed' = passed + 1 /\ failed' = failed
       ELSE exc' = "AssertionError" /\ failed' = failed + 1 /\ passed' = passed
    /\ tpc' = "results"
    /\ cases_left' = 0 /\ original' = None /\ parts' = <<>> /\ year' = None
    /\ printed' = FALSE
    /\ UNCHANGED <<response, test_exit>>
    /\ KeepRequest /\ KeepExecutor

\* lines 191-204: main() reports and returns 0 when no test failed, else 1.
test_results ==
    /\ tpc = "results"
    /\ test_exit' = IF failed = 0 THEN 0 ELSE 1
    /\ tpc' = "idle"
    /\ exc' = "None"
    /\ UNCHANGED <<passed, failed, response>>
    /\ KeepNaming /\ KeepRequest /\ KeepExecutor

(***************************************************************************)
(* The import run the tests stand for: Transfer Planner, Import Executor   *)
(* and Result Reporter. Their code is not among the sources; they are      *)
(* modelled from the specification's component design.                     *)
(***************************************************************************)
Strategies == {"Hardlink", "Copy", "Skip"}
FileSizes == {1, 2}

PlanEntries == [size : FileSizes, strategy : Strategies]

Plans == UNION { [1..n -> PlanEntries] : n \in 0..MaxFiles }

KeepTests ==
    UNCHANGED <<passed, failed, test_exit, request, parsed, cases_left,
                original, parts, year, printed, worldVars, importVars, calls,
                mainVars>>

\* The request-handling layer hands a request over, with its defaults.
ImportRequest ==
    /\ tpc = "idle"
    /\ \E req \in Requests : run' = <<parse_request(req)>>
    /\ tpc' = "scan"
    /\ response' = None /\ exc' = "None"
    /\ UNCHANGED <<plan, stats, importedFiles>>
    /\ KeepTests

\* The response of a run, assembled by the Result Reporter.
Report(ok, text) ==
    [ success |-> ok, message |-> text, stats |-> stats,
      dryRun |-> run[1].dry_run, sourcePath |-> run[1].path,
      destinationPath |-> run[1].output_path,
      importedFiles |-> importedFiles ]

\* The directory scan and the Transfer Planner: one plan entry per
\* discovered file; an unreadable source path ends the run.
ScanAndPlan ==
    /\ tpc = "scan"
    /\ \/ /\ response' = <<Report(FALSE, "source path is not readable")>>
          /\ tpc' = "idle"
          /\ run' = None
          /\ UNCHANGED <<plan, stats>>
       \/ /\ \E entries \in Plans :
                /\ plan' = entries
                /\ stats' = [ZeroStats EXCEPT !.filesScanned = Len(entries)]
          /\ tpc' = "execute"
          /\ UNCHANGED <<response, run>>
    /\ UNCHANGED <<exc, importedFiles>>
    /\ KeepTests

\* The outcome of one entry added to the accumulator.
Outcome(st, entry, result, hardlinked) ==
    [st EXCEPT
       !.filesAnalyzed = @ + 1,
       !.successfulImports = @ + (IF result = "imported" THEN 1 ELSE 0),
       !.failedImports = @ + (IF result = "failed" THEN 1 ELSE 0),
       !.skippedFiles = @ + (IF result = "skipped" THEN 1 ELSE 0),
       !.totalSize = @ + (IF result # "failed" THEN entry.size ELSE 0),
       !.hardlinksCreated =
           @ + (IF result = "imported" /\ hardlinked THEN 1 ELSE 0),
       !.filesCopied =
           @ + (IF result = "imported" /\ ~hardlinked THEN 1 ELSE 0)]

ImportedFile(entry, hardlinked) ==
    [size |-> entry.size, hardlinked |-> hardlinked]

\* The Import Executor on the next plan entry. A Skip entry is skipped. In
\* dry-run mode the entry counts as if its planned operation succeeded. In
\* live mode the strategy is validated again, and the operation succeeds,
\* fails, or finds the destination unavailable (a skip).
ExecuteEntry ==
    /\ tpc = "execute"
    /\ plan # <<>>
    /\ LET entry == Head(plan) IN
       \E result \in {"imported", "failed", "skipped"},
          actual \in {"Hardlink", "Copy"} :
        /\ entry.strategy = "Skip" => result = "skipped"
        /\ run[1].dry_run /\ entry.strategy # "Skip" =>
              result = "imported" /\ actual = entry.strategy
        /\ result # "imported" => actual = "Copy"
        /\ stats' = Outcome(stats, entry, result, actual = "Hardlink")
        /\ importedFiles' =
              IF result = "imported"
              THEN Append(importedFiles,
                          ImportedFile(entry, actual = "Hardlink"))
              ELSE importedFiles
    /\ plan' = Tail(plan)
    /\ UNCHANGED <<tpc, exc, response, run>>
    /\ KeepTests

\* The Result Reporter: the run's response, once every entry is executed.
ReportResult ==
    /\ tpc = "execute"
    /\ plan = <<>>
    /\ response' = <<Report(TRUE, "Import completed successfully")>>
    /\ tpc' = "idle"
    /\ stats' = ZeroStats /\ importedFiles' = <<>> /\ run' = None
    /\ UNCHANGED <<exc, plan>>
    /\ KeepTests

NextUnit ==
    \/ RunTests
    \/ test_import_response_format
    \/ test_request_validation_valid
    \/ test_request_validation_defaults
    \/ test_file_naming_logic_start
    \/ test_file_naming_logic_case
    \/ test_file_naming_logic_return
    \/ test_import_workflow_simulation
    \/ test_results
    \/ ImportRequest
    \/ ScanAndPlan
    \/ ExecuteEntry
    \/ ReportResult


(***************************************************************************)
(* Claims about the unit tests and the import run (SpecUnit).              *)
(***************************************************************************)
\* C1: in every response produced, the test's expected response included,
\* filesScanned equals successfulImports + failedImports + skippedFiles.
C1_EveryFileCountedOnce ==
    response # None =>
        LET s == response[1].stats IN
        s.filesScanned = s.successfulImports + s.failedImports + s.skippedFiles

\* A run that ended with a failed file and a skipped file.
C1_Witness ==
    /\ response # None
    /\ response[1].stats.failedImports > 0
    /\ response[1].stats.skippedFiles > 0

\* C3: the year is the first part, left to right, that is exactly four
\* digits and begins with 19 or 20; a later match never replaces it.
C3_FirstMatchWins ==
    \A i \in 1..Len(parts) :
        (is_year(parts[i]) /\ \A j \in 1..(i - 1) : ~is_year(parts[j]))
            => year = parts[i]

\* A filename with two different matching parts, the first one taken.
C3_Witness ==
    \E i, j \in 1..Len(parts) :
        /\ i < j /\ is_year(parts[i]) /\ is_year(parts[j])
        /\ parts[i] # parts[j]
        /\ year = parts[i]

\* C4: for a filename with no four-digit part beginning with 19 or 20 the
\* year is absent, no exception is raised and processing proceeds.
C4_NoYearNoError ==
    (original # None /\ \A i \in 1..Len(parts) : ~is_year(parts[i])) =>
        (year = None /\ exc = "None" /\ printed)

\* C5: each of path, outputPath and dryRun is the request's value when the
\* field is present and its default otherwise; an empty request yields the
\* three defaults.
C5_DefaultsPerField ==
    request # None =>
        LET r == request[1]
            p == parsed[1]
        IN  /\ p.path = (IF "path" \in DOMAIN r THEN r["path"]
                         ELSE "/downloads")
            /\ p.output_path = (IF "outputPath" \in DOMAIN r
                                THEN r["outputPath"] ELSE "/movies")
            /\ p.dry_run = (IF "dryRun" \in DOMAIN r THEN r["dryRun"]
                            ELSE TRUE)
            /\ (DOMAIN r = {} =>
                  p = [path |-> "/downloads", output_path |-> "/movies",
                       dry_run |-> TRUE])

\* A request that gives an empty path and dryRun false, and no outputPath.
C5_Witness ==
    /\ request # None
    /\ DOMAIN request[1] = {"path", "dryRun"}
    /\ request[1]["path"] = "" /\ request[1]["dryRun"] = FALSE
    /\ parsed[1] = [path |-> "", output_path |-> "/movies", dry_run |-> FALSE]

\* The entries of a response's importedFiles with the given hardlinked flag.
FilesFlagged(r, flag) ==
    Cardinality({i \in 1..Len(r.importedFiles) :
                    r.importedFiles[i].hardlinked = flag})

\* C6: in a dry-run response the importedFiles entries with hardlinked =
\* true number stats.hardlinksCreated, and those with hardlinked = false
\* number stats.filesCopied.
C6_DryRunFlagsMatchStats ==
    (response # None /\ response[1].dryRun) =>
        /\ FilesFlagged(response[1], TRUE) = response[1].stats.hardlinksCreated
        /\ FilesFlagged(response[1], FALSE) = response[1].stats.filesCopied

(***************************************************************************)
(* AnalysisImporter and the database behind its connection.                *)
(*                                                                         *)
(* A world w is the importer and its database: conn, session_id, lost,     *)
(* aborted, db, seqs. Every method is an operator from a world and the     *)
(* method's arguments to [w: the world after, out: the value returned,     *)
(* raised: an exception left the method]. A fault <<k, how>> makes the     *)
(* method's k-th database statement fail (k = 0: none does): how = "error" *)
(* is an error the server reports, how = "lost" the loss of the            *)
(* connection, after which rollback() raises too.                          *)
(***************************************************************************)
World ==
    [ conn |-> conn, session_id |-> session_id, lost |-> lost,
      aborted |-> aborted, db |-> db, seqs |-> seqs ]

SetWorld(w) ==
    /\ conn' = w.conn /\ session_id' = w.session_id /\ lost' = w.lost
    /\ aborted' = w.aborted /\ db' = w.db /\ seqs' = w.seqs

EmptyTable == [k \in {} |-> 0]

EmptyDb ==
    [ analysis_sessions |-> EmptyTable,  \* id -> row
      scene_groups |-> EmptyTable,       \* id -> row
      scene_group_metrics |-> EmptyTable,\* scene_group_id -> row (one date)
      scene_group_reputation_history |-> <<>>,
      release_analysis |-> <<>> ]

Faults(n) == {<<0, "none">>} \cup ((1..n) \X {"error", "lost"})

Result(w, out, raised) == [w |-> w, out |-> out, raised |-> raised]

\* No statement can run: self.conn is None (AttributeError) or the
\* connection is closed or lost (psycopg2 raises); rollback() raises as well.
Unusable(w) == w.conn # "open" \/ w.lost

\* conn.rollback(): the transaction's writes are dropped, the failed state
\* is left.
rollback(w) == [w EXCEPT !.aborted = FALSE]

\* lines 29-37
connect(w, ok) ==
    IF ok
    THEN Result([w EXCEPT !.conn = "open", !.lost = FALSE, !.aborted = FALSE],
                TRUE, FALSE)
    ELSE Result(w, FALSE, FALSE)

\* lines 39-43
disconnect(w) ==
    IF w.conn # "None"
    THEN Result([w EXCEPT !.conn = "closed"], 0, FALSE)
    ELSE Result(w, 0, FALSE)

\* What a try/except-rollback method does when its statement number k fails:
\* with the connection lost the rollback raises too; w is the world with what
\* the method assigned before the failure.
Failed(w, how, out) ==
    IF how = "lost"
    THEN Result([w EXCEPT !.lost = TRUE], out, TRUE)
    ELSE Result(rollback(w), out, FALSE)

\* lines 45-63. Statements: 1 the INSERT, 2 the commit. self.session_id is
\* assigned (line 56) before the commit.
create_analysis_session(w, fault) ==
    LET id == w.seqs.session + 1
        inserted == [w EXCEPT !.seqs.session = id, !.session_id = id]
        row == [ status |-> "running", pages_processed |-> 0,
                 releases_analyzed |-> 0, groups_discovered |-> 0,
                 new_groups_added |-> 0 ]
    IN  IF Unusable(w) THEN Result(w, 0, TRUE)
        ELSE IF w.aborted THEN Failed(w, "error", 0)
        ELSE IF fault[1] = 1 THEN Failed(w, fault[2], 0)
        ELSE IF fault[1] = 2 THEN Failed(inserted, fault[2], 0)
        ELSE Result([inserted EXCEPT !.db.analysis_sessions = @ @@ (id :> row)],
                    id, FALSE)

\* lines 65-88. Statements: 1 the UPDATE, 2 the commit.
update_analysis_session(w, pages, releases, groups, new_groups, status, fault) ==
    LET id == w.session_id
        row == [ status |-> status, pages_processed |-> pages,
                 releases_analyzed |-> releases, groups_discovered |-> groups,
                 new_groups_added |-> new_groups ]
    IN  IF id = 0 THEN Result(w, 0, FALSE)
        ELSE IF Unusable(w) THEN Result(w, 0, TRUE)
        ELSE IF w.aborted THEN Failed(w, "error", 0)
        ELSE IF fault[1] # 0 THEN Failed(w, fault[2], 0)
        ELSE IF id \in DOMAIN w.db.analysis_sessions
        THEN Result([w EXCEPT !.db.analysis_sessions[id] = row], 0, FALSE)
        ELSE Result(w, 0, FALSE)

\* The reputation scores calculate_scene_group_reputation may return.
Scores == {50}

\* The score column of a scene group before line 151 sets it.
NoScore == -1

\* A lookup that never finds the group: every call would insert.
group_ids_none(d, group_name) == {}

\* SELECT id FROM scene_groups WHERE name = %s (line 95)
group_ids(d, group_name) ==
    {id \in DOMAIN d.scene_groups : d.scene_groups[id].name = group_name}

\* LEAST(100, release_count / 10 * 10) (lines 154, 168)
confidence(release_count) ==
    IF release_count > 100 THEN 100 ELSE release_count

\* lines 90-177, as the transaction runs. Statements: 1 the SELECT by name,
\* 2 the UPDATE or INSERT of the group, 3 the metrics upsert, 4 the
\* reputation SELECT, 5 the reputation UPDATE, 6 the history INSERT (only
\* with a session), 7 the commit. metrics.get() raises on metrics that are
\* no dict: at line 111 for a new group, at line 137 for a known one.
\* The result is a record of the database after statements 2 and 6, the
\* group's id, whether the id is new, and the first failing statement.
scene_group_txn(w, group_name, metrics, fault) ==
    LET found == group_ids(w.db, group_name)
        isNew == found = {}
        id == IF isNew THEN w.seqs.group + 1 ELSE CHOOSE i \in found : TRUE
        bad == IF metrics.dict THEN 0 ELSE IF isNew THEN 2 ELSE 3
        skip6 == fault[1] = 6 /\ w.session_id = 0
        at == IF fault[1] # 0 /\ ~skip6 /\ (bad = 0 \/ fault[1] < bad)
              THEN fault[1] ELSE bad
        how == IF at = fault[1] /\ at # bad THEN fault[2] ELSE "error"
    IN  [id |-> id, isNew |-> isNew, at |-> at, how |-> how]

\* lines 98-117: the group's row, updated or inserted (statement 2).
group_row_written(w, id, isNew, group_name, metrics) ==
    LET group_type == IF metrics.is_internal THEN "internal" ELSE "scene"
    IN  IF isNew
        THEN [w.db EXCEPT !.scene_groups = @ @@
               (id :> [ name |-> group_name, group_type |-> group_type,
                        metadata |-> metrics,
                        reputation_score |-> NoScore,
                        confidence_level |-> 0 ])]
        ELSE [w.db EXCEPT !.scene_groups[id].metadata = metrics]

\* lines 98-169: every row the call writes (statements 2 to 6).
scene_group_rows(w, id, isNew, group_name, metrics, new_score) ==
    LET d2 == group_row_written(w, id, isNew, group_name, metrics)
        d3 == [d2 EXCEPT !.scene_group_metrics =
                 [g \in DOMAIN @ \cup {id} |->
                    IF g = id THEN [release_count |-> metrics.release_count]
                    ELSE @[g]]]
        d5 == [d3 EXCEPT
                 !.scene_groups[id].reputation_score = new_score,
                 !.scene_groups[id].confidence_level =
                     confidence(metrics.release_count)]
    IN  IF w.session_id # 0
        THEN [d5 EXCEPT !.scene_group_reputation_history =
                 Append(@, [ scene_group_id |-> id,
                             analysis_session_id |-> w.session_id,
                             new_score |-> new_score,
                             sample_size |-> metrics.release_count ])]
        ELSE d5

\* A plausible slip in import_scene_group: a commit right after the group's
\* row is written, so that the row stays when a later statement fails.
import_scene_group_early_commit(w, group_name, metrics, fault, new_score) ==
    LET t == scene_group_txn(w, group_name, metrics, fault)
        burnt == IF t.isNew /\ (t.at = 0 \/ t.at > 2)
                 THEN [w EXCEPT !.seqs.group = t.id] ELSE w
    IN  IF Unusable(w) THEN Result(w, 0, TRUE)
        ELSE IF w.aborted THEN Failed(w, "error", 0)
        ELSE IF t.at > 2
        THEN Failed([burnt EXCEPT !.db =
                        group_row_written(w, t.id, t.isNew, group_name,
                                          metrics)],
                    t.how, 0)
        ELSE IF t.at # 0 THEN Failed(burnt, t.how, 0)
        ELSE Result([burnt EXCEPT !.db =
                        scene_group_rows(w, t.id, t.isNew, group_name,
                                         metrics, new_score)],
                    t.id, FALSE)

\* lines 90-177: every write of the call is committed by line 171, or
\* dropped by the rollback of line 176.
import_scene_group(w, group_name, metrics, fault, new_score) ==
    LET t == scene_group_txn(w, group_name, metrics, fault)
        burnt == IF t.isNew /\ (t.at = 0 \/ t.at > 2)
                 THEN [w EXCEPT !.seqs.group = t.id] ELSE w
    IN  IF Unusable(w) THEN Result(w, 0, TRUE)
        ELSE IF w.aborted THEN Failed(w, "error", 0)
        ELSE IF t.at # 0 THEN Failed(burnt, t.how, 0)
        ELSE Result([burnt EXCEPT !.db =
                        scene_group_rows(w, t.id, t.isNew, group_name,
                                         metrics, new_score)],
                    t.id, FALSE)

\* A release without an info_hash (release_data.get('info_hash') is None).
NoHash == "None"

\* lines 179-210. Statements: 1 the INSERT ... ON CONFLICT (info_hash) DO
\* NOTHING, 2 the commit. release_data.get() raises on a release that is no
\* dict, before the INSERT is sent.
import_release(w, release_data, gid, fault) ==
    LET stored == {w.db.release_analysis[i].info_hash :
                      i \in 1..Len(w.db.release_analysis)}
        conflict == release_data.info_hash # NoHash
                    /\ release_data.info_hash \in stored
        row == [scene_group_id |-> gid, info_hash |-> release_data.info_hash]
    IN  IF Unusable(w) THEN Result(w, 0, TRUE)
        ELSE IF w.aborted THEN Failed(w, "error", 0)
        ELSE IF ~release_data.dict THEN Failed(w, "error", 0)
        ELSE IF fault[1] # 0 THEN Failed(w, fault[2], 0)
        ELSE IF conflict THEN Result(w, 0, FALSE)
        ELSE Result([w EXCEPT !.db.release_analysis = Append(@, row)],
                    0, FALSE)

\* lines 290-301. Statement: 1 the SELECT. No exception leaves the method,
\* and nothing rolls back: after an error the transaction stays failed.
\* The rows are the `limit` best groups by reputation.
get_top_groups(w, limit, fault) ==
    LET ids == DOMAIN w.db.scene_groups
        score(g) == w.db.scene_groups[g].reputation_score
        tops == {S \in SUBSET ids :
                    /\ Cardinality(S) =
                         (IF Cardinality(ids) < limit THEN Cardinality(ids)
                          ELSE limit)
                    /\ \A g \in S, h \in ids \ S : score(g) >= score(h)}
    IN  IF Unusable(w) THEN Result(w, {}, FALSE)
        ELSE IF w.aborted THEN Result(w, {}, FALSE)
        ELSE IF fault[1] # 0 /\ fault[2] = "lost"
        THEN Result([w EXCEPT !.lost = TRUE], {}, FALSE)
        ELSE IF fault[1] # 0 THEN Result([w EXCEPT !.aborted = TRUE], {}, FALSE)
        ELSE Result(w, CHOOSE S \in tops : TRUE, FALSE)

(***************************************************************************)
(* The files given to import_json_file and import_csv_file. A file's       *)
(* entries are drawn as the loop reaches them.                             *)
(***************************************************************************)
Names == {"g1", "g2"}
Hashes == {"h1"}
ReleaseCounts == {5}
PageCounts == {3}
TotalReleases == {40}

\* A release of a group's 'releases' list: a dict with an info_hash.
Releases == [dict : {TRUE}, info_hash : Hashes]

ReleaseLists == UNION { [1..n -> Releases] : n \in 0..MaxReleases }

\* The metrics of a scene group: a dict, or something that is no dict.
Metrics ==
    [dict : {TRUE}, is_internal : {FALSE}, release_count : ReleaseCounts,
     releases : ReleaseLists]
        \cup {[dict |-> FALSE, is_internal |-> FALSE, release_count |-> 0,
                releases |-> <<>>]}

\* The number of entries a file may hold: data['scene_groups'] is a dict,
\* so its names are distinct.
GroupCounts == {n \in 0..MaxGroups : n <= Cardinality(Names)}

\* A JSON file: unreadable (open or json.load raises), holding something
\* that is no dict, or holding a dict with `groups` scene groups.
JsonFiles ==
    [readable : {TRUE}, dict : {TRUE}, pages_processed : PageCounts,
     total_releases : TotalReleases, groups : GroupCounts]
        \cup {[readable |-> r, dict |-> FALSE, pages_processed |-> 0,
                total_releases |-> 0, groups |-> 0] : r \in BOOLEAN}

\* A CSV row: its group name ("" when the column is missing or empty) and
\* whether int() and float() accept its numbers.
CsvRows == [group_name : Names \cup {""}, numeric : BOOLEAN,
            release_count : ReleaseCounts]

CsvFiles ==
    [readable : {TRUE}, rows : 0..MaxGroups]
        \cup {[readable |-> FALSE, rows |-> 0]}

\* One call made by the running import: the method, the group name, hash or
\* status it was given, the id or count that goes with it, whether an
\* exception left it, and for a scene group the length of its 'releases'.
Event(call, name, out, raised, releases) ==
    [call |-> call, name |-> name, out |-> out, raised |-> raised,
     releases |-> releases]

NoReturn == [op |-> "none", out |-> FALSE, raised |-> FALSE]
NoFile == [readable |-> FALSE]

InitImporter ==
    /\ conn = "None" /\ session_id = 0 /\ lost = FALSE /\ aborted = FALSE
    /\ db = EmptyDb /\ seqs = [session |-> 0, group |-> 0]
    /\ pc = "idle" /\ data = NoFile /\ todo = 0 /\ rels = <<>>
    /\ group_id = 0 /\ total_groups = 0 /\ trace = <<>> /\ ret = NoReturn
    /\ calls = 0

\* The names of the scene groups the running import has been through.
NamesSeen ==
    {trace[i].name : i \in {j \in 1..Len(trace) :
                              trace[j].call = "import_scene_group"}}

(***************************************************************************)
(* import_json_file, step by step.                                         *)
(***************************************************************************)
\* lines 212-230: the file is opened and loaded, the session is created and
\* the statistics are read from the data. data.get() raises on data that is
\* no dict.
import_json_file_start(json_file) ==
    /\ pc = "idle"
    /\ data' = json_file
    /\ rels' = <<>> /\ group_id' = 0 /\ total_groups' = 0
    /\ ret' = NoReturn
    /\ IF ~json_file.readable
       THEN /\ pc' = "json_except"
            /\ trace' = <<>> /\ todo' = 0
            /\ UNCHANGED worldVars
       ELSE \E fault \in Faults(2) :
            LET r == create_analysis_session(World, fault) IN
            /\ SetWorld(r.w)
            /\ trace' = <<Event("create_analysis_session", "", r.out,
                                r.raised, 0)>>
            /\ IF r.raised \/ ~json_file.dict
               THEN pc' = "json_except" /\ todo' = 0
               ELSE pc' = "json_loop" /\ todo' = json_file.groups

\* The loop of lines 231-240 if it stopped at the first scene group whose
\* import returns no id.
import_json_file_group_break ==
    /\ pc = "json_loop"
    /\ todo > 0
    /\ \E group_name \in Names \ NamesSeen, metrics \in Metrics,
          fault \in Faults(7), new_score \in Scores :
        LET r == import_scene_group(World, group_name, metrics, fault,
                                    new_score)
        IN  /\ SetWorld(r.w)
            /\ trace' = Append(trace,
                               Event("import_scene_group", group_name, r.out,
                                     r.raised, Len(metrics.releases)))
            /\ group_id' = r.out
            /\ todo' = IF ~r.raised /\ r.out = 0 THEN 0 ELSE todo - 1
            /\ IF r.raised
               THEN pc' = "json_except" /\ UNCHANGED <<rels, total_groups>>
               ELSE IF r.out # 0
               THEN /\ total_groups' = total_groups + 1
                    /\ rels' = metrics.releases
                    /\ pc' = IF metrics.releases # <<>>
                             THEN "json_releases" ELSE "json_loop"
               ELSE pc' = "json_loop" /\ UNCHANGED <<rels, total_groups>>
    /\ UNCHANGED <<data, ret, unitVars, calls, mainVars>>

\* lines 231-238: the next scene group of the loop.
import_json_file_group ==
    /\ pc = "json_loop"
    /\ todo > 0
    /\ \E group_name \in Names \ NamesSeen, metrics \in Metrics,
          fault \in Faults(7), new_score \in Scores :
        LET r == import_scene_group(World, group_name, metrics, fault,
                                    new_score)
        IN  /\ SetWorld(r.w)
            /\ trace' = Append(trace,
                               Event("import_scene_group", group_name, r.out,
                                     r.raised, Len(metrics.releases)))
            /\ group_id' = r.out
            /\ IF r.raised
               THEN pc' = "json_except" /\ UNCHANGED <<rels, total_groups>>
               ELSE IF r.out # 0
               THEN /\ total_groups' = total_groups + 1
                    /\ rels' = metrics.releases
                    /\ pc' = IF metrics.releases # <<>>
                             THEN "json_releases" ELSE "json_loop"
               ELSE pc' = "json_loop" /\ UNCHANGED <<rels, total_groups>>
    /\ todo' = todo - 1
    /\ UNCHANGED <<data, ret, unitVars, calls, mainVars>>

\* lines 239-240: the next release of the group.
import_json_file_release ==
    /\ pc = "json_releases"
    /\ \E fault \in Faults(2) :
        LET r == import_release(World, Head(rels), group_id, fault) IN
        /\ SetWorld(r.w)
        /\ trace' = Append(trace, Event("import_release",
                                        Head(rels).info_hash, 0, r.raised, 0))
        /\ rels' = Tail(rels)
        /\ pc' = IF r.raised THEN "json_except"
                 ELSE IF Tail(rels) # <<>> THEN "json_releases"
                 ELSE "json_loop"
    /\ UNCHANGED <<data, todo, group_id, total_groups, ret>>
    /\ UNCHANGED <<unitVars, calls, mainVars>>

\* lines 242-252: the loop is over; the session is updated and True returned.
import_json_file_update ==
    /\ pc = "json_loop"
    /\ todo = 0
    /\ \E fault \in Faults(2) :
        LET r == update_analysis_session(World, data.pages_processed,
                     data.total_releases, total_groups, 0, "completed", fault)
        IN  /\ SetWorld(r.w)
            /\ trace' = Append(trace,
                               Event("update_analysis_session", "completed",
                                     total_groups, r.raised, 0))
            /\ IF r.raised
               THEN pc' = "json_except" /\ UNCHANGED ret
               ELSE /\ pc' = "returned"
                    /\ ret' = [op |-> "import_json_file", out |-> TRUE,
                               raised |-> FALSE]
    /\ UNCHANGED <<data, todo, rels, group_id, total_groups>>
    /\ UNCHANGED <<unitVars, calls, mainVars>>

\* lines 254-258: the handler of any exception raised in the body.
import_json_file_except ==
    /\ pc = "json_except"
    /\ \E fault \in Faults(2) :
        LET r == IF session_id # 0
                 THEN update_analysis_session(World, 0, 0, 0, 0, "failed", fault)
                 ELSE Result(World, 0, FALSE)
        IN  /\ SetWorld(r.w)
            /\ trace' = IF session_id # 0
                        THEN Append(trace,
                                    Event("update_analysis_session", "failed",
                                          0, r.raised, 0))
                        ELSE trace
            /\ ret' = [op |-> "import_json_file", out |-> FALSE,
                       raised |-> r.raised]
    /\ pc' = "returned"
    /\ UNCHANGED <<data, todo, rels, group_id, total_groups>>
    /\ UNCHANGED <<unitVars, calls, mainVars>>

(***************************************************************************)
(* import_csv_file, step by step.                                          *)
(***************************************************************************)
\* lines 260-268: the file is opened.
import_csv_file_start(csv_file) ==
    /\ pc = "idle"
    /\ data' = csv_file
    /\ rels' = <<>> /\ group_id' = 0 /\ total_groups' = 0 /\ trace' = <<>>
    /\ ret' = NoReturn
    /\ todo' = csv_file.rows
    /\ pc' = IF csv_file.readable THEN "csv_loop" ELSE "csv_except"
    /\ UNCHANGED worldVars

\* lines 270-279: the next row. A row without a group name is passed over;
\* int() and float() raise on a number they cannot read.
import_csv_file_row ==
    /\ pc = "csv_loop"
    /\ todo > 0
    /\ \E row \in CsvRows, fault \in Faults(7), new_score \in Scores :
        LET metrics == [dict |-> TRUE, is_internal |-> FALSE,
                        release_count |-> row.release_count,
                        releases |-> <<>>]
            r == import_scene_group(World, row.group_name, metrics, fault,
                                    new_score)
        IN  IF row.group_name = ""
            THEN pc' = "csv_loop" /\ UNCHANGED <<worldVars, trace>>
            ELSE IF ~row.numeric
            THEN pc' = "csv_except" /\ UNCHANGED <<worldVars, trace>>
            ELSE /\ SetWorld(r.w)
                 /\ trace' = Append(trace,
                                    Event("import_scene_group", row.group_name,
                                          r.out, r.raised, 0))
                 /\ pc' = IF r.raised THEN "csv_except" ELSE "csv_loop"
    /\ todo' = todo - 1
    /\ UNCHANGED <<data, rels, group_id, total_groups, ret>>
    /\ UNCHANGED <<unitVars, calls, mainVars>>

\* lines 281-283: the commit after the loop, and True returned.
import_csv_file_commit ==
    /\ pc = "csv_loop"
    /\ todo = 0
    /\ \E how \in {"none", "lost"} :
        IF Unusable(World)
        THEN pc' = "csv_except" /\ UNCHANGED <<worldVars, ret>>
        ELSE IF how = "lost"
        THEN /\ pc' = "csv_except"
             /\ SetWorld([World EXCEPT !.lost = TRUE])
             /\ UNCHANGED ret
        ELSE /\ pc' = "returned"
             /\ SetWorld(rollback(World))
             /\ ret' = [op |-> "import_csv_file", out |-> TRUE,
                        raised |-> FALSE]
    /\ UNCHANGED <<data, todo, rels, group_id, total_groups, trace>>
    /\ UNCHANGED <<unitVars, calls, mainVars>>

\* lines 285-288: the handler; its rollback raises on an unusable connection.
import_csv_file_except ==
    /\ pc = "csv_except"
    /\ pc' = "returned"
    /\ SetWorld(IF Unusable(World) THEN World ELSE rollback(World))
    /\ ret' = [op |-> "import_csv_file", out |-> FALSE,
               raised |-> Unusable(World)]
    /\ UNCHANGED <<data, todo, rels, group_id, total_groups, trace>>
    /\ UNCHANGED <<unitVars, calls, mainVars>>

\* The caller has the import's result; the import's locals are gone.
ImportLocalsGone ==
    /\ pc' = "idle" /\ data' = NoFile /\ todo' = 0 /\ rels' = <<>>
    /\ group_id' = 0 /\ total_groups' = 0 /\ trace' = <<>> /\ ret' = NoReturn

(***************************************************************************)
(* Calls on one AnalysisImporter, in any order, up to `budget` calls.      *)
(***************************************************************************)
CanCall(budget) == pc = "idle" /\ calls < budget

KeepImport == UNCHANGED <<importVars, unitVars, mainVars>>

Connect(budget) ==
    /\ CanCall(budget)
    /\ \E ok \in BOOLEAN : SetWorld(connect(World, ok).w)
    /\ calls' = calls + 1
    /\ KeepImport

Disconnect(budget) ==
    /\ CanCall(budget)
    /\ SetWorld(disconnect(World).w)
    /\ calls' = calls + 1
    /\ KeepImport

ImportJsonFile(budget) ==
    /\ CanCall(budget)
    /\ \E json_file \in JsonFiles : import_json_file_start(json_file)
    /\ calls' = calls + 1
    /\ UNCHANGED <<unitVars, mainVars>>

ImportCsvFile(budget) ==
    /\ CanCall(budget)
    /\ \E csv_file \in CsvFiles : import_csv_file_start(csv_file)
    /\ calls' = calls + 1
    /\ UNCHANGED <<unitVars, mainVars>>

GetTopGroups(budget) ==
    /\ CanCall(budget)
    /\ \E fault \in Faults(1), limit \in 1..2 :
        SetWorld(get_top_groups(World, limit, fault).w)
    /\ calls' = calls + 1
    /\ KeepImport

\* The import has returned, or raised, to the caller.
ImportReturns ==
    /\ pc = "returned"
    /\ mpc = "not started"
    /\ ImportLocalsGone
    /\ UNCHANGED <<worldVars, calls, unitVars, mainVars>>

\* The steps of a running import.
ImportStep ==
    \/ import_json_file_group
    \/ import_json_file_release
    \/ import_json_file_update
    \/ import_json_file_except
    \/ import_csv_file_row
    \/ import_csv_file_commit
    \/ import_csv_file_except

InitMain ==
    /\ mpc = "not started" /\ args = [input_file |-> "", show_top |-> 0]
    /\ success = FALSE /\ escaped = FALSE /\ exit_status = -1
    /\ disconnects = 0 /\ imports = 0 /\ runs = 0

Init == InitUnit /\ InitImporter /\ InitMain

Next ==
    \/ Connect(MaxCalls)
    \/ Disconnect(MaxCalls)
    \/ ImportJsonFile(MaxCalls)
    \/ ImportCsvFile(MaxCalls)
    \/ GetTopGroups(MaxCalls)
    \/ ImportReturns
    \/ ImportStep

Spec == Init /\ [][Next]_vars

NextReuse ==
    \/ Connect(MaxReuseCalls)
    \/ Disconnect(MaxReuseCalls)
    \/ ImportJsonFile(MaxReuseCalls)
    \/ ImportCsvFile(MaxReuseCalls)
    \/ GetTopGroups(MaxReuseCalls)
    \/ ImportReturns
    \/ ImportStep

SpecReuse == Init /\ [][NextReuse]_vars

SpecUnit == Init /\ [][NextUnit]_vars

(***************************************************************************)
(* main(), step by step. Each run is one process: a new AnalysisImporter   *)
(* on the database the earlier runs left.                                  *)
(***************************************************************************)
InputFiles == {"analysis.json", "groups.csv", "notes.txt"}
ShowTops == {0, 2}       \* 0: --show-top was not given

KeepWorld == UNCHANGED <<worldVars, importVars, calls, unitVars>>

\* lines 304-316: the arguments are parsed and the importer is created.
main_start ==
    /\ mpc = "not started" /\ pc = "idle" /\ runs < MaxRuns
    /\ runs' = runs + 1
    /\ \E input_file \in InputFiles, show_top \in ShowTops :
        args' = [input_file |-> input_file, show_top |-> show_top]
    /\ conn' = "None" /\ session_id' = 0 /\ lost' = FALSE /\ aborted' = FALSE
    /\ success' = FALSE /\ escaped' = FALSE /\ exit_status' = -1
    /\ disconnects' = 0 /\ imports' = 0
    /\ mpc' = "connect"
    /\ UNCHANGED <<db, seqs, importVars, calls, unitVars>>

\* lines 318-319: connect(), and sys.exit(1) when it fails.
main_connect ==
    /\ mpc = "connect"
    /\ \E ok \in BOOLEAN :
        /\ SetWorld(connect(World, ok).w)
        /\ IF ok
           THEN mpc' = "import" /\ UNCHANGED exit_status
           ELSE mpc' = "exited" /\ exit_status' = 1
    /\ UNCHANGED <<args, success, escaped, disconnects, imports, runs>>
    /\ UNCHANGED <<importVars, calls, unitVars>>

\* lines 321-329: the import the file's suffix selects is called.
main_import ==
    /\ mpc = "import"
    /\ IF args.input_file = "analysis.json"
       THEN /\ \E json_file \in JsonFiles : import_json_file_start(json_file)
            /\ imports' = imports + 1
            /\ mpc' = "importing"
            /\ UNCHANGED success
       ELSE IF args.input_file = "groups.csv"
       THEN /\ \E csv_file \in CsvFiles : import_csv_file_start(csv_file)
            /\ imports' = imports + 1
            /\ mpc' = "importing"
            /\ UNCHANGED success
       ELSE /\ success' = FALSE
            /\ mpc' = "show top"
            /\ UNCHANGED <<imports, worldVars, importVars>>
    /\ UNCHANGED <<args, escaped, exit_status, disconnects, runs>>
    /\ UNCHANGED <<calls, unitVars>>

\* Without the `finally` of lines 340-341: an exception that leaves the
\* import ends the process at once.
main_import_returns_no_finally ==
    /\ mpc = "importing" /\ pc = "returned"
    /\ IF ret.raised
       THEN escaped' = TRUE /\ mpc' = "exited" /\ exit_status' = 1
            /\ UNCHANGED success
       ELSE success' = ret.out /\ mpc' = "show top"
            /\ UNCHANGED <<escaped, exit_status>>
    /\ ImportLocalsGone
    /\ UNCHANGED <<args, disconnects, imports, runs>>
    /\ UNCHANGED <<worldVars, calls, unitVars>>

\* lines 321-326, 340: the import's result is assigned to success, or its
\* exception leaves the try block for the finally clause.
main_import_returns ==
    /\ mpc = "importing" /\ pc = "returned"
    /\ IF ret.raised
       THEN escaped' = TRUE /\ mpc' = "finally" /\ UNCHANGED success
       ELSE success' = ret.out /\ mpc' = "show top" /\ UNCHANGED escaped
    /\ ImportLocalsGone
    /\ UNCHANGED <<args, exit_status, disconnects, imports, runs>>
    /\ UNCHANGED <<worldVars, calls, unitVars>>

\* lines 331-338: the best groups are fetched and printed.
main_show_top ==
    /\ mpc = "show top"
    /\ IF success /\ args.show_top # 0
       THEN \E fault \in Faults(1) :
               SetWorld(get_top_groups(World, args.show_top, fault).w)
       ELSE UNCHANGED worldVars
    /\ mpc' = "finally"
    /\ UNCHANGED <<args, success, escaped, exit_status, disconnects, imports,
                   runs>>
    /\ UNCHANGED <<importVars, calls, unitVars>>

\* lines 340-341: disconnect(); then main returns (status 0) or the escaped
\* exception ends the process (status 1).
main_finally ==
    /\ mpc = "finally"
    /\ SetWorld(disconnect(World).w)
    /\ disconnects' = disconnects + 1
    /\ exit_status' = (IF escaped THEN 1 ELSE 0)
    /\ mpc' = "exited"
    /\ UNCHANGED <<args, success, escaped, imports, runs>>
    /\ UNCHANGED <<importVars, calls, unitVars>>

\* The process has ended; the script can be run again.
main_exit ==
    /\ mpc = "exited"
    /\ mpc' = "not started"
    /\ UNCHANGED <<args, success, escaped, exit_status, disconnects, imports,
                   runs>>
    /\ KeepWorld

NextMain ==
    \/ main_start
    \/ main_connect
    \/ main_import
    \/ ImportStep
    \/ main_import_returns
    \/ main_show_top
    \/ main_finally
    \/ main_exit

SpecMain == Init /\ [][NextMain]_vars

(***************************************************************************)
(* Claims about AnalysisImporter (Spec, SpecReuse).                        *)
(***************************************************************************)
\* The calls of one method in the running import's trace.
CallsOf(method) == SelectSeq(trace, LAMBDA e : e.call = method)

RECURSIVE ReleasesListed(_, _)
\* The releases listed under the scene groups of `events`: under all of
\* them, or only under those whose import returned an id.
ReleasesListed(events, all) ==
    IF events = <<>> THEN 0
    ELSE (IF all \/ Head(events).out # 0 THEN Head(events).releases ELSE 0)
         + ReleasesListed(Tail(events), all)

GroupsImported ==
    Len(SelectSeq(CallsOf("import_scene_group"), LAMBDA e : e.out # 0))

\* import_json_file has returned from a run over a readable file holding a
\* dict, in which no exception left a method it called: every failure of a
\* scene group's or a release's import was caught by the method itself.
C2_Case ==
    /\ pc = "returned" /\ ret.op = "import_json_file"
    /\ data.readable /\ data.dict
    /\ \A i \in 1..Len(trace) : ~trace[i].raised

\* The run went through every scene group, ended by updating the session as
\* completed, and passed the number of groups imported.
C2_BatchNotAborted ==
    /\ ret.out = TRUE /\ ~ret.raised
    /\ Len(CallsOf("import_scene_group")) = data.groups
    /\ trace[Len(trace)].call = "update_analysis_session"
    /\ trace[Len(trace)].name = "completed"
    /\ trace[Len(trace)].out = GroupsImported

SessionCreated ==
    IF trace # <<>> /\ trace[1].call = "create_analysis_session"
    THEN trace[1].out ELSE 0

\* C7: when import_json_file returns, the session it created is 'completed'
\* if it returns True and 'failed' if it returns False.
C7_SessionLeavesRunning ==
    (/\ pc = "returned" /\ ret.op = "import_json_file" /\ ~ret.raised
     /\ SessionCreated # 0) =>
        db.analysis_sessions[SessionCreated].status =
            (IF ret.out THEN "completed" ELSE "failed")

\* The step is one call of import_scene_group.
SceneGroupCalled ==
    /\ Len(trace') = Len(trace) + 1
    /\ trace'[Len(trace')].call = "import_scene_group"

\* C8: a call of import_scene_group that returns an id has committed the
\* group's row, its metrics row, its reputation score and, with a session,
\* its reputation-history row, and nothing else; a call that returns None
\* leaves the committed data as it was.
C8_AllOrNothing ==
    [][SceneGroupCalled =>
        LET e == trace'[Len(trace')]
            id == e.out
        IN  IF id # 0
            THEN /\ id \in DOMAIN db'.scene_groups
                 /\ db'.scene_groups[id].name = e.name
                 /\ db'.scene_groups[id].reputation_score \in Scores
                 /\ id \in DOMAIN db'.scene_group_metrics
                 /\ \A g \in DOMAIN db.scene_groups \ {id} :
                       /\ g \in DOMAIN db'.scene_groups
                       /\ db'.scene_groups[g] = db.scene_groups[g]
                 /\ IF session_id # 0
                    THEN \E row \in [scene_group_id : {id},
                                     analysis_session_id : {session_id},
                                     new_score :
                                       {db'.scene_groups[id].reputation_score},
                                     sample_size : ReleaseCounts] :
                            db'.scene_group_reputation_history =
                              Append(db.scene_group_reputation_history, row)
                    ELSE UNCHANGED db.scene_group_reputation_history
                 /\ UNCHANGED <<db.analysis_sessions, db.release_analysis>>
            ELSE UNCHANGED db
      ]_vars

\* A run with a session in which one group was imported, with its history
\* row, and the next group's import returned None.
C8_Witness ==
    /\ session_id # 0
    /\ Len(CallsOf("import_scene_group")) = 2
    /\ CallsOf("import_scene_group")[1].out # 0
    /\ CallsOf("import_scene_group")[2].out = 0
    /\ ~CallsOf("import_scene_group")[2].raised
    /\ Len(db.scene_group_reputation_history) = 1
    /\ DOMAIN db.scene_groups = {CallsOf("import_scene_group")[1].out}

\* C9: once a session is recorded as 'completed', no later step changes its
\* status or its counts.
C9_CompletedSessionKept ==
    [][\A s \in DOMAIN db.analysis_sessions :
          db.analysis_sessions[s].status = "completed" =>
              /\ s \in DOMAIN db'.analysis_sessions
              /\ db'.analysis_sessions[s] = db.analysis_sessions[s]
      ]_vars

(***************************************************************************)
(* Claims about main (SpecMain).                                           *)
(***************************************************************************)
\* C10: when the process has ended, disconnect was called exactly once if
\* connect succeeded, however the import ended; if connect failed, the
\* process exited with status 1, no import was attempted and disconnect was
\* not called. Before the end disconnect is not called at all.
C10_ConnectionReleased ==
    /\ mpc = "exited" =>
          IF conn # "None"
          THEN disconnects = 1 /\ conn = "closed"
          ELSE exit_status = 1 /\ imports = 0 /\ disconnects = 0
    /\ mpc \in {"connect", "import", "importing", "show top", "finally"} =>
          disconnects = 0

\* A run that connected, whose import let an exception escape, and that has
\* ended with the connection closed.
C10_Witness ==
    /\ mpc = "exited" /\ escaped /\ imports = 1
    /\ conn = "closed" /\ disconnects = 1 /\ exit_status = 1

(***************************************************************************)
(* Claims about the records kept per name and per info_hash (Spec).        *)
(***************************************************************************)
\* The info_hashes stored in release_analysis of database d.
StoredHashes(d) ==
    {d.release_analysis[i].info_hash : i \in 1..Len(d.release_analysis)}

\* No two scene-group records of d bear the same name.
OneRecordPerName(d) ==
    \A g, h \in DOMAIN d.scene_groups :
        d.scene_groups[g].name = d.scene_groups[h].name => g = h

\* No info_hash is stored twice in release_analysis of d.
OneRowPerHash(d) ==
    \A i, j \in 1..Len(d.release_analysis) :
        /\ d.release_analysis[i].info_hash = d.release_analysis[j].info_hash
        /\ d.release_analysis[i].info_hash # NoHash
        => i = j

\* The step is one call of import_release.
ReleaseCalled ==
    /\ Len(trace') = Len(trace) + 1
    /\ trace'[Len(trace')].call = "import_release"

\* C11: after every step there is at most one scene-group record per name
\* and no info_hash stored twice. A call of import_scene_group that returns
\* an id returns the id of the record that bears the name: the record that
\* was there before the call if there was one (no record is added), and a
\* new record otherwise; no record is ever removed or renamed. A call of
\* import_release adds at most one row, and none when the release's
\* info_hash is already stored.
C11_OneRecordPerNameAndHash ==
    [][/\ OneRecordPerName(db')
       /\ OneRowPerHash(db')
       /\ \A g \in DOMAIN db.scene_groups :
             /\ g \in DOMAIN db'.scene_groups
             /\ db'.scene_groups[g].name = db.scene_groups[g].name
       /\ SceneGroupCalled =>
             LET e == trace'[Len(trace')] IN
             e.out # 0 =>
                 /\ group_ids(db', e.name) = {e.out}
                 /\ IF group_ids(db, e.name) # {}
                    THEN /\ group_ids(db, e.name) = {e.out}
                         /\ DOMAIN db'.scene_groups = DOMAIN db.scene_groups
                    ELSE DOMAIN db'.scene_groups =
                            DOMAIN db.scene_groups \cup {e.out}
       /\ ReleaseCalled =>
             LET hash == trace'[Len(trace')].name IN
             IF hash \in StoredHashes(db)
             THEN UNCHANGED db.release_analysis
             ELSE \/ UNCHANGED db.release_analysis
                  \/ /\ Len(db'.release_analysis) =
                          Len(db.release_analysis) + 1
                     /\ StoredHashes(db') = StoredHashes(db) \cup {hash}
                     /\ SubSeq(db'.release_analysis, 1,
                               Len(db.release_analysis)) = db.release_analysis
      ]_vars

\* Two calls of import_scene_group with one name have both returned the one
\* id of the single record that bears the name.
C11_Witness ==
    /\ Len(CallsOf("import_scene_group")) = 2
    /\ CallsOf("import_scene_group")[1].name =
          CallsOf("import_scene_group")[2].name
    /\ CallsOf("import_scene_group")[1].out # 0
    /\ CallsOf("import_scene_group")[2].out =
          CallsOf("import_scene_group")[1].out
    /\ DOMAIN db.scene_groups = {CallsOf("import_scene_group")[1].out}

====
